---- MODULE Spec2Model ----
(***************************************************************************)
(* downcan: walk a directory tree, find the files whose content sniffs as  *)
(* a ZIP archive, and extract each into <parent>/expanded/<base[:len-4]>   *)
(* unless that destination already exists.                                 *)
(*                                                                         *)
(* A file name is a sequence of byte codes ("bar.zip" is                   *)
(* <<98,97,114,46,122,105,112>>), a path is a sequence of names, and the   *)
(* filesystem is a function from the existing paths to their nodes.        *)
(***************************************************************************)
EXTENDS Integers, Sequences, FiniteSets, TLC

\* ------------------------------------------------------------------ bounds
MaxRuns == 2        \* invocations of the program in one behaviour
MaxExtras == 1      \* further files and directories in the tree besides foo/bar.zip
MaxEntries == 2     \* entries of the archive stored as foo/bar.zip

\* ------------------------------------------------------- program constants
SniffLen == 512     \* buffer := make([]byte, 512)
SuffixLen == 4      \* zipFileName[:len(zipFileName)-4]

\* ------------------------------------------------------------------- names
Expanded == <<101, 120, 112, 97, 110, 100, 101, 100>>   \* "expanded"
ZipMime == "application/zip"
Dot == <<46>>                                           \* "."
DotDot == <<46, 46>>                                    \* ".."

\* ------------------------------------------------------------------- paths
\* sort.Strings order on names: bytewise lexicographic, a proper prefix first.
NameLess(a, b) ==
    \E k \in 1..(Len(a) + 1) :
        /\ \A j \in 1..(k - 1) : j <= Len(b) /\ a[j] = b[j]
        /\ \/ k = Len(a) + 1 /\ Len(b) >= k
           \/ k <= Len(a) /\ k <= Len(b) /\ a[k] < b[k]

\* filepath.Clean on a path already split at the separators: "." elements
\* are dropped and ".." removes the element before it.
RECURSIVE CleanFrom(_, _)
CleanFrom(done, rest) ==
    IF rest = <<>> THEN done
    ELSE LET e == Head(rest) IN
         IF e = Dot \/ e = <<>> THEN CleanFrom(done, Tail(rest))
         ELSE IF e = DotDot /\ done # <<>> /\ done[Len(done)] # DotDot
              THEN CleanFrom(SubSeq(done, 1, Len(done) - 1), Tail(rest))
              ELSE CleanFrom(Append(done, e), Tail(rest))

Clean(path) == CleanFrom(<<>>, path)

\* filepath.Join: the elements that are not empty, joined and cleaned.
Join(dir, elems) == Clean(dir \o elems)

\* filepath.Dir and filepath.Base of a walked path (never empty).
Dir(path) == SubSeq(path, 1, Len(path) - 1)
Base(path) == path[Len(path)]

IsPrefix(p, q) == Len(p) <= Len(q) /\ SubSeq(q, 1, Len(p)) = p

\* -------------------------------------------------------------- filesystem
\* Nodes.  A file's data is [bytes, valid, entries]: its leading bytes, and
\* what archive/zip reads from it (valid = the central directory parses).
DirNode(r) == [kind |-> "dir", readable |-> r]
FileNode(d) == [kind |-> "file", data |-> d]

Exists(f, p) == p \in DOMAIN f
IsDirAt(f, p) == Exists(f, p) /\ f[p].kind = "dir"
IsFileAt(f, p) == Exists(f, p) /\ f[p].kind = "file"

\* os.Stat(p): err == nil exactly when the path resolves.
Stat_never(f, p) == FALSE
Stat(f, p) == Exists(f, p)

Prefixes(p) == {SubSeq(p, 1, k) : k \in 1..Len(p)}

\* os.MkdirAll(p, perm): fails when p or an ancestor is not a directory,
\* otherwise creates every missing directory on the way down.
MkdirAllOk(f, p) == \A q \in Prefixes(p) : Exists(f, q) => f[q].kind = "dir"
MkdirAllFs(f, p) ==
    [q \in DOMAIN f \cup Prefixes(p) |-> IF q \in DOMAIN f THEN f[q] ELSE DirNode(TRUE)]
MkdirAll(f, p) ==
    IF MkdirAllOk(f, p) THEN [ok |-> TRUE, fs |-> MkdirAllFs(f, p)]
    ELSE [ok |-> FALSE, fs |-> f]

\* os.Create(p): needs an existing parent directory and no directory at p;
\* the file is created or truncated to empty.
CreateOk(f, p) == p # <<>> /\ IsDirAt(f, Dir(p)) /\ ~IsDirAt(f, p)
EmptyData == [bytes |-> <<>>, valid |-> FALSE, entries |-> <<>>]
WriteFile(f, p, d) == [q \in DOMAIN f \cup {p} |-> IF q = p THEN FileNode(d) ELSE f[q]]
Create(f, p) ==
    IF CreateOk(f, p) THEN [ok |-> TRUE, fs |-> WriteFile(f, p, EmptyData)]
    ELSE [ok |-> FALSE, fs |-> f]

\* ------------------------------------------------------------ ContentSniffer
\* The 512-byte buffer after one Read: the file's first bytes, zeros after.
Buffer(bytes) == [i \in 1..SniffLen |-> IF i <= Len(bytes) THEN bytes[i] ELSE 0]

\* http.DetectContentType: the first signature of sniffSignatures that
\* matches the buffer names the type, application/octet-stream when none
\* does.  A signature is [kind, pat, skipWS, ct]; in a masked pattern Wild
\* stands for a byte whose mask is 0x00 (every other mask byte is 0xFF).
Wild == 0 - 1
IsWS(b) == b \in {9, 10, 12, 13, 32}
IsBinaryByte(b) == b <= 8 \/ b = 11 \/ (14 <= b /\ b <= 26) \/ (28 <= b /\ b <= 31)

HtmlSig(pat) == [kind |-> "html", pat |-> pat, skipWS |-> TRUE, ct |-> "text/html; charset=utf-8"]
MaskedSig(pat, skipWS, ct) == [kind |-> "masked", pat |-> pat, skipWS |-> skipWS, ct |-> ct]
ExactSig(pat, ct) == [kind |-> "exact", pat |-> pat, skipWS |-> FALSE, ct |-> ct]
Mp4Sig == [kind |-> "mp4", pat |-> <<>>, skipWS |-> FALSE, ct |-> "video/mp4"]
TextSig == [kind |-> "text", pat |-> <<>>, skipWS |-> TRUE, ct |-> "text/plain; charset=utf-8"]

sniffSignatures ==
    << HtmlSig(<<60, 33, 68, 79, 67, 84, 89, 80, 69, 32, 72, 84, 77, 76>>),
       HtmlSig(<<60, 72, 84, 77, 76>>),
       HtmlSig(<<60, 72, 69, 65, 68>>),
       HtmlSig(<<60, 83, 67, 82, 73, 80, 84>>),
       HtmlSig(<<60, 73, 70, 82, 65, 77, 69>>),
       HtmlSig(<<60, 72, 49>>),
       HtmlSig(<<60, 68, 73, 86>>),
       HtmlSig(<<60, 70, 79, 78, 84>>),
       HtmlSig(<<60, 84, 65, 66, 76, 69>>),
       HtmlSig(<<60, 65>>),
       HtmlSig(<<60, 83, 84, 89, 76, 69>>),
       HtmlSig(<<60, 84, 73, 84, 76, 69>>),
       HtmlSig(<<60, 66>>),
       HtmlSig(<<60, 66, 79, 68, 89>>),
       HtmlSig(<<60, 66, 82>>),
       HtmlSig(<<60, 80>>),
       HtmlSig(<<60, 33, 45, 45>>),
       MaskedSig(<<60, 63, 120, 109, 108>>, TRUE, "text/xml; charset=utf-8"),
       ExactSig(<<37, 80, 68, 70, 45>>, "application/pdf"),
       ExactSig(<<37, 33, 80, 83, 45, 65, 100, 111, 98, 101, 45>>, "application/postscript"),
       MaskedSig(<<254, 255, Wild, Wild>>, FALSE, "text/plain; charset=utf-16be"),
       MaskedSig(<<255, 254, Wild, Wild>>, FALSE, "text/plain; charset=utf-16le"),
       MaskedSig(<<239, 187, 191, Wild>>, FALSE, "text/plain; charset=utf-8"),
       ExactSig(<<0, 0, 1, 0>>, "image/x-icon"),
       ExactSig(<<0, 0, 2, 0>>, "image/x-icon"),
       ExactSig(<<66, 77>>, "image/bmp"),
       ExactSig(<<71, 73, 70, 56, 55, 97>>, "image/gif"),
       ExactSig(<<71, 73, 70, 56, 57, 97>>, "image/gif"),
       ExactSig(<<137, 80, 78, 71, 13, 10, 26, 10>>, "image/png"),
       ExactSig(<<255, 216, 255>>, "image/jpeg"),
       MaskedSig(<<82, 73, 70, 70, Wild, Wild, Wild, Wild, 87, 69, 66, 80, 86, 80>>, FALSE, "image/webp"),
       MaskedSig(<<46, 115, 110, 100>>, FALSE, "audio/basic"),
       MaskedSig(<<70, 79, 82, 77, Wild, Wild, Wild, Wild, 65, 73, 70, 70>>, FALSE, "audio/aiff"),
       MaskedSig(<<73, 68, 51>>, FALSE, "audio/mpeg"),
       MaskedSig(<<79, 103, 103, 83, 0>>, FALSE, "application/ogg"),
       MaskedSig(<<77, 84, 104, 100, 0, 0, 0, 6>>, FALSE, "audio/midi"),
       MaskedSig(<<82, 73, 70, 70, Wild, Wild, Wild, Wild, 65, 86, 73, 32>>, FALSE, "video/avi"),
       MaskedSig(<<82, 73, 70, 70, Wild, Wild, Wild, Wild, 87, 65, 86, 69>>, FALSE, "audio/wave"),
       Mp4Sig,
       ExactSig(<<26, 69, 223, 163>>, "video/webm"),
       MaskedSig(<<Wild, Wild, Wild, Wild, Wild, Wild, Wild, Wild, Wild, Wild, Wild, Wild, Wild, Wild, Wild, Wild, Wild, Wild, Wild, Wild, Wild, Wild, Wild, Wild, Wild, Wild, Wild, Wild, Wild, Wild, Wild, Wild, Wild, Wild, 76, 80>>, FALSE, "application/vnd.ms-fontobject"),
       ExactSig(<<0, 1, 0, 0>>, "font/ttf"),
       ExactSig(<<79, 84, 84, 79>>, "font/otf"),
       ExactSig(<<116, 116, 99, 102>>, "font/collection"),
       ExactSig(<<119, 79, 70, 70>>, "font/woff"),
       ExactSig(<<119, 79, 70, 50>>, "font/woff2"),
       ExactSig(<<31, 139, 8>>, "application/x-gzip"),
       ExactSig(<<80, 75, 3, 4>>, ZipMime),
       ExactSig(<<82, 97, 114, 33, 26, 7, 0>>, "application/x-rar-compressed"),
       ExactSig(<<82, 97, 114, 33, 26, 7, 1, 0>>, "application/x-rar-compressed"),
       ExactSig(<<0, 97, 115, 109>>, "application/wasm"),
       TextSig >>

\* The index of the first byte that is not whitespace, Len + 1 when all are.
FirstNonWS(data) ==
    LET S == {i \in 1..Len(data) : ~IsWS(data[i])} IN
    IF S = {} THEN Len(data) + 1 ELSE CHOOSE i \in S : \A j \in S : i <= j

\* db &= 0xDF
ClearCaseBit(b) == IF (b \div 32) % 2 = 1 THEN b - 32 ELSE b

\* mp4Sig.match: an ftyp box whose size is a multiple of four and fits the
\* data, with a brand that starts with "mp4" (the version word is skipped).
\* The size is the big-endian uint32 of the first four bytes; with either
\* of its high bytes set it exceeds the 512 bytes the data can have.
Mp4Match(data) ==
    /\ Len(data) >= 12
    /\ data[1] = 0 /\ data[2] = 0
    /\ LET boxSize == data[3] * 256 + data[4] IN
        /\ Len(data) >= boxSize
        /\ boxSize % 4 = 0
        /\ SubSeq(data, 5, 8) = <<102, 116, 121, 112>>
        /\ \E st \in 8..(boxSize - 1) :
               /\ st % 4 = 0
               /\ st # 12
               /\ SubSeq(data, st + 1, st + 3) = <<109, 112, 52>>

SigMatches(sig, data, firstNonWS) ==
    LET d == IF sig.skipWS THEN SubSeq(data, firstNonWS, Len(data)) ELSE data
        pat == sig.pat
    IN CASE sig.kind = "exact" ->
                Len(d) >= Len(pat) /\ SubSeq(d, 1, Len(pat)) = pat
         [] sig.kind = "masked" ->
                /\ Len(d) >= Len(pat)
                /\ \A i \in 1..Len(pat) : pat[i] = Wild \/ d[i] = pat[i]
         [] sig.kind = "html" ->
                /\ Len(d) >= Len(pat) + 1
                /\ \A i \in 1..Len(pat) :
                       pat[i] = IF 65 <= pat[i] /\ pat[i] <= 90 THEN ClearCaseBit(d[i])
                                ELSE d[i]
                /\ d[Len(pat) + 1] \in {32, 62}
         [] sig.kind = "mp4" -> Mp4Match(d)
         [] OTHER -> \A i \in 1..Len(d) : ~IsBinaryByte(d[i])

DetectContentType(buf) ==
    LET data == SubSeq(buf, 1, IF Len(buf) > SniffLen THEN SniffLen ELSE Len(buf))
        firstNonWS == FirstNonWS(data)
        hits == {k \in 1..Len(sniffSignatures) : SigMatches(sniffSignatures[k], data, firstNonWS)}
    IN IF hits = {} THEN "application/octet-stream"
       ELSE sniffSignatures[CHOOSE k \in hits : \A j \in hits : k <= j].ct

\* getFileContentType: Open, Read (io.EOF on an empty file), Seek, sniff.
getFileContentType_byName(f, path) ==
    LET n == Base(path) IN
    IF Len(n) >= 4 /\ SubSeq(n, Len(n) - 3, Len(n)) = <<46, 122, 105, 112>>
    THEN [err |-> FALSE, type |-> ZipMime]
    ELSE [err |-> FALSE, type |-> "application/octet-stream"]
getFileContentType(f, path) ==
    IF Len(f[path].data.bytes) = 0 THEN [err |-> TRUE, type |-> ""]
    ELSE [err |-> FALSE, type |-> DetectContentType(Buffer(f[path].data.bytes))]

\* ---------------------------------------------------------------- TreeScanner
Children(f, d) == {p \in DOMAIN f : Len(p) = Len(d) + 1 /\ IsPrefix(d, p)}

\* readDirNames: the directory's entries in sort.Strings order.
RECURSIVE SortPaths(_)
SortPaths(S) ==
    IF S = {} THEN <<>>
    ELSE LET m == CHOOSE p \in S : \A q \in S \ {p} : NameLess(Base(p), Base(q))
         IN <<m>> \o SortPaths(S \ {m})

\* The callback handed to filepath.Walk, on a file: sniff, append when ZIP.
walkFn(f, path) ==
    IF getFileContentType(f, path).type = ZipMime THEN <<path>> ELSE <<>>

\* filepath.Walk below an entry that Lstat found: [err, files], files being
\* what the callback appended until the walk ended.
RECURSIVE walk(_, _)
RECURSIVE walkNames(_, _, _)
walk(f, path) ==
    IF f[path].kind = "file" THEN [err |-> FALSE, files |-> walkFn(f, path)]
    ELSE IF ~f[path].readable THEN [err |-> TRUE, files |-> <<>>]
    ELSE walkNames(f, SortPaths(Children(f, path)), <<>>)
walkNames(f, names, acc) ==
    IF names = <<>> THEN [err |-> FALSE, files |-> acc]
    ELSE LET r == walk(f, Head(names)) IN
         IF r.err THEN [err |-> TRUE, files |-> acc \o r.files]
         ELSE walkNames(f, Tail(names), acc \o r.files)

Walk(f, root) ==
    IF ~Exists(f, root) THEN [err |-> TRUE, files |-> <<>>]
    ELSE walk(f, root)

findZipFiles_partial(f, directory) ==
    [err |-> FALSE, zipFiles |-> Walk(f, directory).files]
findZipFiles(f, directory) ==
    LET w == Walk(f, directory) IN
    IF w.err THEN [err |-> TRUE, zipFiles |-> <<>>]
    ELSE [err |-> FALSE, zipFiles |-> w.files]

\* -------------------------------------------------------- DestinationResolver
\* getExpandedPath: the slice zipFileName[:len-4] panics on a base name of
\* fewer than four bytes; otherwise Join(dir, "expanded", stem).
getExpandedPath(zipFilePath) ==
    LET baseDir == Dir(zipFilePath)
        zipFileName == Base(zipFilePath)
    IN IF Len(zipFileName) < SuffixLen THEN [panic |-> TRUE, path |-> <<>>]
       ELSE [panic |-> FALSE,
             path |-> Join(baseDir, <<Expanded,
                                      SubSeq(zipFileName, 1, Len(zipFileName) - SuffixLen)>>)]

\* --------------------------------------------------------------- the trees
R == <<114>>                                            \* "r"
Nope == <<110, 111, 112, 101>>                          \* "nope"
Foo == <<102, 111, 111>>                                \* "foo"
BarZip == <<98, 97, 114, 46, 122, 105, 112>>            \* "bar.zip"
BarBin == <<98, 97, 114, 46, 98, 105, 110>>             \* "bar.bin"
BadZip == <<98, 97, 100, 46, 122, 105, 112>>            \* "bad.zip"
ShortName == <<99, 46, 122>>                            \* "c.z"
LockZip == <<108, 111, 99, 107, 46, 122, 105, 112>>     \* "lock.zip"
NoteZip == <<110, 111, 116, 101, 46, 122, 105, 112>>    \* "note.zip"
TailZip == <<116, 97, 105, 108, 46, 122, 105, 112>>     \* "tail.zip"
AirZip == <<97, 105, 114, 46, 122, 105, 112>>            \* "air.zip"
Zz == <<122, 122>>                                      \* "zz"
Bar == <<98, 97, 114>>                                  \* "bar"
OldTxt == <<111, 108, 100, 46, 116, 120, 116>>          \* "old.txt"
NameA == <<97>>                                         \* "a"
NameB == <<98, 46, 116, 120, 116>>                      \* "b.txt"
NameC == <<99, 46, 116, 120, 116>>                      \* "c.txt"
NameIn == <<105, 110, 46, 122, 105, 112>>               \* "in.zip"
NameF == <<102, 46, 100, 97, 116>>                      \* "f.dat"

Text(bytes) == [bytes |-> bytes, valid |-> FALSE, entries |-> <<>>]
Hello == Text(<<104, 101, 108, 108, 111>>)              \* "hello"
World == Text(<<119, 111, 114, 108, 100>>)              \* "world"
PK == <<80, 75, 3, 4>>                                  \* local file header signature
Archive(entries) == [bytes |-> PK, valid |-> TRUE, entries |-> entries]
Corrupt == [bytes |-> PK, valid |-> FALSE, entries |-> <<>>]

\* Archive entries: a name split at "/", whether it is a directory marker
\* (the name ends in "/"), the bytes it decompresses to, and what goes wrong
\* reading it ("open": unsupported method, "copy": checksum error at EOF).
DirEntry(name) == [name |-> name, isDir |-> TRUE, data |-> EmptyData, fault |-> "none"]
FileEntry(name, data, fault) == [name |-> name, isDir |-> FALSE, data |-> data, fault |-> fault]

EntryPool ==
    { DirEntry(<<NameA>>),
      FileEntry(<<NameA, NameB>>, Hello, "none"),
      FileEntry(<<NameIn>>, Archive(<<FileEntry(<<NameC>>, World, "none")>>), "none"),
      FileEntry(<<NameF>>, World, "copy") }

\* Every sequence of distinct pool entries of length 1..MaxEntries.
RECURSIVE Arrangements(_, _)
Arrangements(S, n) ==
    IF n = 0 THEN {<<>>}
    ELSE {<<>>} \cup {<<e>> \o t : e \in S, t \in Arrangements(S, n - 1)}
Distinct(s) == \A i, j \in 1..Len(s) : i # j => s[i] # s[j]
BarContents ==
    {Archive(s) : s \in {t \in Arrangements(EntryPool, MaxEntries) : t # <<>> /\ Distinct(t)}}
        \cup {Hello}

BaseTree(c) ==
    (<<R>> :> DirNode(TRUE)) @@ (<<R, Foo>> :> DirNode(TRUE))
        @@ (<<R, Foo, BarZip>> :> FileNode(c))

Items ==
    { <<R, Foo, BadZip>> :> FileNode(Corrupt),
      <<R, Foo, BarBin>> :> FileNode(Archive(<<FileEntry(<<NameC>>, World, "none")>>)),
      <<R, Foo, ShortName>> :> FileNode(Archive(<<FileEntry(<<NameC>>, World, "none")>>)),
      <<R, Foo, LockZip>> :> FileNode(Archive(<<FileEntry(<<NameC>>, World, "open")>>)),
      <<R, Foo, NoteZip>> :> FileNode(Hello),
      <<R, Foo, TailZip>> :> FileNode(Archive(<<FileEntry(<<NameC>>, World, "none")>>)),
      <<R, Foo, AirZip>> :> FileNode(EmptyData),
      (<<R, Foo, Expanded>> :> DirNode(TRUE)) @@ (<<R, Foo, Expanded, Bar>> :> DirNode(TRUE))
          @@ (<<R, Foo, Expanded, Bar, OldTxt>> :> FileNode(Hello)),
      <<R, Foo, Expanded>> :> FileNode(Hello),
      <<R, Zz>> :> DirNode(FALSE) }

RECURSIVE Merge(_)
Merge(S) == IF S = {} THEN <<>> ELSE LET i == CHOOSE i \in S : TRUE IN i @@ Merge(S \ {i})

\* A tree is well formed when every entry below the top has a directory
\* as its parent.
WellFormed(f) == \A p \in DOMAIN f : Len(p) > 1 => IsDirAt(f, Dir(p))

InitialTrees ==
    { t \in { BaseTree(c) @@ Merge(S) :
                c \in BarContents,
                S \in {X \in SUBSET Items : Cardinality(X) <= MaxExtras} } :
        WellFormed(t) }

\* ------------------------------------------------------------------- state
VARIABLES
    fs,         \* the filesystem
    pc,         \* where the program is: idle, scan, loop, open, extract, exited, panic
    exit,       \* the process's exit status, -1 while it runs
    args,       \* the invocation: flag/log outcomes and --data-dir
    zipFiles,   \* run's zipFiles
    idx,        \* position of run's loop in zipFiles
    destDir,    \* run's destDir
    rFile,      \* extractZipFile's r.File
    ei,         \* position of extractZipFile's loop in r.File
    open,       \* handles open in extractZipFile
    deferred,   \* handles its deferred Close calls will close
    xerr,       \* extractZipFile is returning an error
    scanErr,    \* findZipFiles returned an error in this run
    runs,       \* invocations so far
    fs0,        \* history: the filesystem when this run started
    trace,      \* history: what this run did with each archive
    failed      \* history: the extractions that failed, over all runs

vars == <<fs, pc, exit, args, zipFiles, idx, destDir, rFile, ei, open, deferred, xerr,
          scanErr, runs, fs0, trace, failed>>

NoArgs == [parseErr |-> FALSE, levelErr |-> FALSE, loggerErr |-> FALSE, dataDir |-> <<>>]

Init ==
    /\ fs \in InitialTrees
    /\ pc = "idle"
    /\ exit = -1
    /\ args = NoArgs
    /\ zipFiles = <<>>
    /\ idx = 1
    /\ destDir = <<>>
    /\ rFile = <<>>
    /\ ei = 1
    /\ open = {}
    /\ deferred = {}
    /\ xerr = FALSE
    /\ scanErr = FALSE
    /\ runs = 0
    /\ fs0 = fs
    /\ trace = <<>>
    /\ failed = {}

\* ------------------------------------------------------------------ Execute
ArgChoices ==
    [parseErr : BOOLEAN, levelErr : BOOLEAN, loggerErr : BOOLEAN,
     dataDir : {<<>>, <<R>>, <<Nope>>}]

\* Execute's status from its four steps: parseFlags, setLogLevel,
\* setupLogger and run each turn an error into 1.
ExitCode(parseErr, levelErr, loggerErr, runErr) ==
    IF parseErr \/ levelErr \/ loggerErr \/ runErr THEN 1 ELSE 0

\* A new invocation: Execute up to run's check of opts.DataDirectory.
Execute ==
    /\ pc \in {"idle", "exited", "panic"}
    /\ runs < MaxRuns
    /\ \E a \in ArgChoices :
        /\ args' = a
        /\ IF a.parseErr \/ a.levelErr \/ a.loggerErr \/ a.dataDir = <<>>
           THEN /\ pc' = "exited"
                /\ exit' = ExitCode(a.parseErr, a.levelErr, a.loggerErr, a.dataDir = <<>>)
           ELSE /\ pc' = "scan"
                /\ exit' = -1
    /\ runs' = runs + 1
    /\ fs0' = fs
    /\ trace' = <<>>
    /\ zipFiles' = <<>>
    /\ idx' = 1
    /\ scanErr' = FALSE
    /\ destDir' = <<>>
    /\ rFile' = <<>>
    /\ ei' = 1
    /\ open' = {}
    /\ deferred' = {}
    /\ xerr' = FALSE
    /\ UNCHANGED <<fs, failed>>

\* run: zipFiles, err := findZipFiles(opts.DataDirectory); an error is returned.
Scan ==
    /\ pc = "scan"
    /\ LET r == findZipFiles(fs, args.dataDir) IN
        /\ scanErr' = r.err
        /\ zipFiles' = r.zipFiles
        /\ IF r.err
           THEN pc' = "exited" /\ exit' = ExitCode(FALSE, FALSE, FALSE, TRUE)
           ELSE pc' = "loop" /\ exit' = -1
    /\ idx' = 1
    /\ UNCHANGED <<fs, args, destDir, rFile, ei, open, deferred, xerr, runs, fs0, trace,
                   failed>>

\* --------------------------------------------------------------------- run
Visit(zip, dest, existed, mkdir, outcome) ==
    [zip |-> zip, dest |-> dest, existed |-> existed, mkdir |-> mkdir,
     extract |-> FALSE, outcome |-> outcome]

\* One iteration of run's loop up to the call of extractZipFile.
LoopStep ==
    /\ pc = "loop"
    /\ idx <= Len(zipFiles)
    /\ LET zipFile == zipFiles[idx]
           g == getExpandedPath(zipFile)
           m == MkdirAll(fs, g.path)
       IN IF g.panic
          THEN /\ pc' = "panic"
               /\ exit' = 2
               /\ UNCHANGED <<fs, idx, destDir, trace>>
          ELSE IF Stat(fs, g.path)
          THEN /\ trace' = Append(trace, Visit(zipFile, g.path, Exists(fs, g.path), FALSE,
                                               "SkippedExisting"))
               /\ idx' = idx + 1
               /\ UNCHANGED <<fs, pc, exit, destDir>>
          ELSE IF ~m.ok
          THEN /\ trace' = Append(trace, Visit(zipFile, g.path, Exists(fs, g.path), TRUE,
                                               "Failed"))
               /\ idx' = idx + 1
               /\ fs' = m.fs
               /\ UNCHANGED <<pc, exit, destDir>>
          ELSE /\ trace' = Append(trace, Visit(zipFile, g.path, Exists(fs, g.path), TRUE,
                                               "DirectoryCreated"))
               /\ fs' = m.fs
               /\ destDir' = g.path
               /\ pc' = "open"
               /\ UNCHANGED <<idx, exit>>
    /\ UNCHANGED <<args, zipFiles, rFile, ei, open, deferred, xerr, scanErr, runs, fs0,
                   failed>>

\* run returns nil after the last archive and Execute returns 0.
RunReturn ==
    /\ pc = "loop"
    /\ idx > Len(zipFiles)
    /\ pc' = "exited"
    /\ exit' = ExitCode(FALSE, FALSE, FALSE, FALSE)
    /\ UNCHANGED <<fs, args, zipFiles, idx, destDir, rFile, ei, open, deferred, xerr,
                   scanErr, runs, fs0, trace, failed>>

\* ---------------------------------------------------------- extractZipFile
Reader == [kind |-> "reader", entry |-> 0]
Handle(kind, i) == [kind |-> kind, entry |-> i]

Target(dest, entry) == Join(dest, entry.name)

Failure(zip, dest, entries, at) ==
    [zip |-> zip, dest |-> dest, run |-> runs,
     written |-> {Target(dest, entries[k]) : k \in 1..(at - 1)},
     skipped |-> {Target(dest, entries[k]) : k \in (at + 1)..Len(entries)}]

SetOutcome(t, o) == [t EXCEPT ![Len(t)].outcome = o]

\* zip.OpenReader and defer r.Close(); on an error run logs it and goes on.
ExtractOpen ==
    /\ pc = "open"
    /\ LET zipFilePath == zipFiles[idx]
           called == [trace EXCEPT ![Len(trace)].extract = TRUE]
       IN IF IsFileAt(fs, zipFilePath) /\ fs[zipFilePath].data.valid
          THEN /\ rFile' = fs[zipFilePath].data.entries
               /\ open' = {Reader}
               /\ deferred' = {Reader}
               /\ ei' = 1
               /\ xerr' = FALSE
               /\ pc' = "extract"
               /\ trace' = called
               /\ UNCHANGED <<idx, failed>>
          ELSE /\ trace' = SetOutcome(called, "Failed")
               /\ failed' = failed \cup {Failure(zipFilePath, destDir, <<>>, 1)}
               /\ idx' = idx + 1
               /\ pc' = "loop"
               /\ UNCHANGED <<rFile, open, deferred, ei, xerr>>
    /\ UNCHANGED <<fs, exit, args, zipFiles, destDir, scanErr, runs, fs0>>

\* One iteration of the loop over r.File.
ExtractEntry ==
    /\ pc = "extract"
    /\ ~xerr
    /\ ei <= Len(rFile)
    /\ LET file == rFile[ei]
           target == Target(destDir, file)
           rc == Handle("rc", ei)
           out == Handle("f", ei)
           m == MkdirAll(fs, target)
           c == Create(fs, target)
       IN IF file.isDir
          THEN /\ fs' = m.fs
               /\ xerr' = ~m.ok
               /\ ei' = IF m.ok THEN ei + 1 ELSE ei
               /\ UNCHANGED <<open, deferred>>
          ELSE IF file.fault = "open"
          THEN /\ xerr' = TRUE
               /\ UNCHANGED <<fs, ei, open, deferred>>
          ELSE IF ~c.ok
          THEN /\ open' = open \cup {rc}
               /\ deferred' = deferred \cup {rc}
               /\ xerr' = TRUE
               /\ UNCHANGED <<fs, ei>>
          ELSE /\ open' = open \cup {rc, out}
               /\ deferred' = deferred \cup {rc, out}
               /\ fs' = WriteFile(c.fs, target, file.data)
               /\ xerr' = (file.fault = "copy")
               /\ ei' = IF file.fault = "copy" THEN ei ELSE ei + 1
    /\ UNCHANGED <<pc, exit, args, zipFiles, idx, destDir, rFile, scanErr, runs, fs0,
                   trace, failed>>

Without(f, d) == [p \in {q \in DOMAIN f : ~IsPrefix(d, q)} |-> f[p]]

ExtractReturn_rollback ==
    /\ pc = "extract"
    /\ xerr \/ ei > Len(rFile)
    /\ open' = open \ deferred
    /\ deferred' = {}
    /\ trace' = SetOutcome(trace, IF xerr THEN "Failed" ELSE "Extracted")
    /\ failed' = IF xerr THEN failed \cup {Failure(zipFiles[idx], destDir, rFile, ei)}
                 ELSE failed
    /\ fs' = IF xerr THEN Without(fs, destDir) ELSE fs
    /\ xerr' = FALSE
    /\ idx' = idx + 1
    /\ pc' = "loop"
    /\ UNCHANGED <<exit, args, zipFiles, destDir, rFile, ei, scanErr, runs, fs0>>

\* extractZipFile returns: the deferred Close calls run, and run logs an
\* error or moves on.
ExtractReturn ==
    /\ pc = "extract"
    /\ xerr \/ ei > Len(rFile)
    /\ open' = open \ deferred
    /\ deferred' = {}
    /\ trace' = SetOutcome(trace, IF xerr THEN "Failed" ELSE "Extracted")
    /\ failed' = IF xerr THEN failed \cup {Failure(zipFiles[idx], destDir, rFile, ei)}
                 ELSE failed
    /\ xerr' = FALSE
    /\ idx' = idx + 1
    /\ pc' = "loop"
    /\ UNCHANGED <<fs, exit, args, zipFiles, destDir, rFile, ei, scanErr, runs, fs0>>

Next ==
    \/ Execute
    \/ Scan
    \/ LoopStep
    \/ RunReturn
    \/ ExtractOpen
    \/ ExtractEntry
    \/ ExtractReturn

Spec == Init /\ [][Next]_vars

\* ------------------------------------------------------------ vocabulary
\* The invocation got as far as the scan and the scan has returned.
Scanned ==
    /\ pc \in {"loop", "open", "extract", "exited", "panic"}
    /\ ~args.parseErr /\ ~args.levelErr /\ ~args.loggerErr
    /\ args.dataDir # <<>>

\* The walk cannot enumerate the tree: the root is missing or some
\* directory below it cannot be read.
WalkBlocked(f, root) ==
    \/ ~Exists(f, root)
    \/ \E p \in DOMAIN f : IsPrefix(root, p) /\ f[p].kind = "dir" /\ ~f[p].readable

HasZipSignature(bytes) == Len(bytes) >= 4 /\ SubSeq(bytes, 1, 4) = PK

ZipContentFiles(f, root) ==
    {p \in DOMAIN f : IsPrefix(root, p) /\ f[p].kind = "file"
                      /\ HasZipSignature(f[p].data.bytes)}

\* Directory-walk order: at the first name where two paths differ the
\* smaller name comes first, and a directory comes before what it holds.
PathBefore(p, q) ==
    \E k \in 1..(Len(p) + 1) :
        /\ \A j \in 1..(k - 1) : j <= Len(q) /\ p[j] = q[j]
        /\ \/ k = Len(p) + 1 /\ Len(q) >= k
           \/ k <= Len(p) /\ k <= Len(q) /\ NameLess(p[k], q[k])

Subtree(f, d) == [p \in {q \in DOMAIN f : IsPrefix(d, q)} |-> f[p]]

Outcomes == {"SkippedExisting", "Extracted", "Failed"}

\* ------------------------------------------------------------------ claims

\* C1: an archive whose destination exists when run reaches it gets neither
\* the destination MkdirAll nor extractZipFile, and ends SkippedExisting.
C1_SkipIfPresent ==
    \A i \in 1..Len(trace) :
        trace[i].existed =>
            /\ ~trace[i].mkdir
            /\ ~trace[i].extract
            /\ trace[i].outcome = "SkippedExisting"

\* C1 witness: a run skipped an archive whose destination an earlier archive
\* of the same run had just created.
C1_Witness ==
    \E i \in 1..Len(trace) :
        /\ trace[i].existed
        /\ trace[i].outcome = "SkippedExisting"
        /\ ~Exists(fs0, trace[i].dest)

\* C2 (as stated): while the program runs, the tree below every archive's
\* destination that existed when the run started stays as it was, and no
\* extraction goes into it.
C2_SecondRunUntouched ==
    Scanned =>
        \A i \in 1..Len(zipFiles) :
            LET g == getExpandedPath(zipFiles[i]) IN
            (~g.panic /\ Exists(fs0, g.path)) =>
                /\ Subtree(fs, g.path) = Subtree(fs0, g.path)
                /\ \A k \in 1..Len(trace) :
                       IsPrefix(g.path, trace[k].dest) => ~trace[k].extract

\* C3 (as stated): extractZipFile on a well-formed archive, whatever the
\* order of its entries, succeeds with every entry in place and every
\* file holding the entry's bytes.
C3_AnyEntryOrder ==
    \A i \in 1..Len(trace) :
        LET t == trace[i]
            d == fs[t.zip].data
        IN (/\ t.extract
            /\ t.outcome # "DirectoryCreated"
            /\ d.valid
            /\ \A k \in 1..Len(d.entries) : d.entries[k].fault = "none") =>
               /\ t.outcome = "Extracted"
               /\ \A k \in 1..Len(d.entries) :
                      LET e == d.entries[k]
                          target == Target(t.dest, e)
                      IN IF e.isDir THEN IsDirAt(fs, target)
                         ELSE IsFileAt(fs, target) /\ fs[target].data = e.data

\* C4 (as stated): after a successful scan the run ends having taken every
\* discovered archive once, in order, to one of the three outcomes.
C4_EveryArchiveProcessed ==
    (Scanned /\ ~WalkBlocked(fs0, args.dataDir) /\ pc \in {"exited", "panic"}) =>
        /\ pc = "exited"
        /\ Len(trace) = Len(zipFiles)
        /\ \A i \in 1..Len(trace) :
               trace[i].zip = zipFiles[i] /\ trace[i].outcome \in Outcomes

\* The scan of this invocation ran and failed.
ScanFailed ==
    /\ ~args.parseErr /\ ~args.levelErr /\ ~args.loggerErr
    /\ args.dataDir # <<>>
    /\ WalkBlocked(fs0, args.dataDir)

\* C5: when the process ends, its status is non-zero exactly when the
\* invocation was at fault (flag parsing or log setup failed, or the
\* directory argument is missing) or the scan failed, and zero in every
\* other case, whatever happened to the individual archives.
C5_ExitStatus ==
    pc \in {"exited", "panic"} =>
        ((exit # 0) <=>
            (\/ args.parseErr \/ args.levelErr \/ args.loggerErr
             \/ args.dataDir = <<>> \/ ScanFailed))

\* C6: when the walk cannot enumerate the tree, findZipFiles returns an
\* error and no list, the run ends with status 1, nothing is created or
\* extracted, and the filesystem is as it was.
C6_FatalScan ==
    (Scanned /\ WalkBlocked(fs0, args.dataDir)) =>
        /\ scanErr
        /\ zipFiles = <<>>
        /\ pc = "exited"
        /\ exit = 1
        /\ trace = <<>>
        /\ fs = fs0

\* C6 witness: the scan failed after the walk had already come past an archive.
C6_Witness ==
    /\ Scanned
    /\ scanErr
    /\ Walk(fs0, args.dataDir).files # <<>>

\* C7: after a successful scan zipFiles holds, in walk order and once each,
\* exactly the files under the root that start with the ZIP signature; and
\* a run over a tree without any leaves the tree as it was.
C7_ContentGoverned ==
    (Scanned /\ ~WalkBlocked(fs0, args.dataDir)) =>
        /\ {zipFiles[i] : i \in 1..Len(zipFiles)} = ZipContentFiles(fs0, args.dataDir)
        /\ \A i, j \in 1..Len(zipFiles) : i < j => PathBefore(zipFiles[i], zipFiles[j])
        /\ zipFiles = <<>> => fs = fs0

\* C7 witness: the scan kept bar.bin, whose content is a ZIP, and left out
\* a bar.zip that holds plain text.
C7_Witness ==
    /\ Scanned
    /\ zipFiles = << <<R, Foo, BarBin>> >>
    /\ IsFileAt(fs0, <<R, Foo, BarZip>>)

\* C8 (as stated): no two archives of one scan are given the same
\* destination.
C8_CollisionFree ==
    Scanned =>
        \A i, j \in 1..Len(zipFiles) :
            LET gi == getExpandedPath(zipFiles[i])
                gj == getExpandedPath(zipFiles[j])
            IN (i # j /\ ~gi.panic /\ ~gj.panic) => gi.path # gj.path

\* C9 (as stated): during an extraction only the reader and the handles of
\* the entry being processed are open, and none is open once it returned.
C9_HandlesScoped ==
    /\ pc = "extract" =>
           LET current == IF xerr THEN ei ELSE ei - 1 IN
           \A h \in open : h = Reader \/ h.entry = current
    /\ pc # "extract" => open = {}

\* C10: a failed extraction leaves its destination and what it had written,
\* writes nothing of the entries after the failing one, and every later run
\* skips the archive without extracting it.
C10_NeverRepaired ==
    \A h \in failed :
        /\ IsDirAt(fs, h.dest)
        /\ \A p \in h.written : Exists(fs, p)
        /\ \A p \in h.skipped : ~Exists(fs, p)
        /\ \A i \in 1..Len(trace) :
               (trace[i].zip = h.zip /\ h.run < runs) =>
                   trace[i].outcome = "SkippedExisting" /\ ~trace[i].extract

\* C10 witness: a later run skipped an archive whose extraction had failed
\* between two of its entries.
C10_Witness ==
    \E h \in failed :
        /\ h.run < runs
        /\ h.written # {}
        /\ \E i \in 1..Len(trace) :
               trace[i].zip = h.zip /\ trace[i].outcome = "SkippedExisting"
====
